---------------------------- MODULE Spec2Model ----------------------------
(***************************************************************************)
(* A model of the profile store (src/src/profiles.py, FormatProfiles), of  *)
(* the two command builders (FormatProfiles.generate_ffmpeg_command and    *)
(* MediaConverter.convert_file_with_profile in src/src/converter.py) and   *)
(* of the CLI handlers that drive them (src/src/cli.py).                   *)
(*                                                                         *)
(* Representation.                                                         *)
(*  - A Python dict is a function whose DOMAIN is its key set; {} is <<>>. *)
(*    Key order (insertion order) is not modelled.                         *)
(*  - A Python list of strings (a schema option list) is a sequence.       *)
(*  - A float is an exact rational <<num, den>> in lowest terms, den > 0.  *)
(*    The code only halves, doubles, compares with 0.5 and 2 and takes one *)
(*    reciprocal, all of which are exact on the short decimal literals the *)
(*    model feeds it; repr() of a float is injective, so a formatted float *)
(*    is represented by the normalised rational it prints.                 *)
(*  - A command is the sequence of argument groups the code appends with   *)
(*    one extend/append/insert call: << flag >> or << flag, argument >>.   *)
(*    The argument of a filter flag is the comma-joined stage list, kept   *)
(*    as a sequence of stages [f |-> name, x |-> rational].                *)
(***************************************************************************)
EXTENDS Integers, Sequences, FiniteSets, TLC

VARIABLES
    profiles,   \* FormatProfiles.profiles: the in-memory collection
    disk,       \* the file at config_path
    obj,        \* "ready" once __init__ returned, "failed" if it raised
    last,       \* the last call: its arguments and what it returned
    nops        \* number of calls made so far (bounded by MaxOps)

vars == <<profiles, disk, obj, last, nops>>

-----------------------------------------------------------------------------
(* Bounds of the model *)

MaxOps == 2

MaxIter == 14

MaxNum == 1030

-----------------------------------------------------------------------------
(* Python dict and list helpers *)

EmptyDict == <<>>

NONE == "<None>"

Get(d, k, default) == IF k \in DOMAIN d THEN d[k] ELSE default

Put(d, k, v) == [x \in (DOMAIN d) \cup {k} |-> IF x = k THEN v ELSE d[x]]

Del(d, k) == [x \in (DOMAIN d) \ {k} |-> d[x]]

Range(s) == {s[i] : i \in DOMAIN s}

-----------------------------------------------------------------------------
(* Floats as exact rationals *)

RECURSIVE GCD(_, _)
GCD(a, b) == IF b = 0 THEN a ELSE GCD(b, a % b)

Abs(a) == IF a < 0 THEN -a ELSE a

Rat(n, d) ==
    LET g == GCD(Abs(n), Abs(d))
        s == IF d < 0 THEN -1 ELSE 1
    IN  <<(s * n) \div g, (s * d) \div g>>

RLess(a, b) == a[1] * b[2] < b[1] * a[2]

RMul(a, b) == Rat(a[1] * b[1], a[2] * b[2])

RDiv(a, b) == Rat(a[1] * b[2], a[2] * b[1])

Half == <<1, 2>>

One == <<1, 1>>

Two == <<2, 1>>

RECURSIVE Pow(_, _)
Pow(b, e) == IF e = 0 THEN 1 ELSE b * Pow(b, e - 1)

(* The spelling of every string the model's inputs can place in a speed    *)
(* field; any other string of the model (codec names, bitrates with a      *)
(* unit, ...) has no numeric spelling.                                     *)
Spelling ==
    [s \in {"0.25x", "0.5x", "0.75x", "1x", "1.25x", "1.5x", "1.75x", "2x",
            "3x", "4x", "8x", "10x", "0.125x", "0.1x", "x2", "copy", "fast",
            "0x", "-1x"} |->
        CASE s = "0.25x"  -> <<"0", ".", "2", "5", "x">>
          [] s = "0.5x"   -> <<"0", ".", "5", "x">>
          [] s = "0.75x"  -> <<"0", ".", "7", "5", "x">>
          [] s = "1x"     -> <<"1", "x">>
          [] s = "1.25x"  -> <<"1", ".", "2", "5", "x">>
          [] s = "1.5x"   -> <<"1", ".", "5", "x">>
          [] s = "1.75x"  -> <<"1", ".", "7", "5", "x">>
          [] s = "2x"     -> <<"2", "x">>
          [] s = "3x"     -> <<"3", "x">>
          [] s = "4x"     -> <<"4", "x">>
          [] s = "8x"     -> <<"8", "x">>
          [] s = "10x"    -> <<"1", "0", "x">>
          [] s = "0.125x" -> <<"0", ".", "1", "2", "5", "x">>
          [] s = "0.1x"   -> <<"0", ".", "1", "x">>
          [] s = "x2"     -> <<"x", "2">>
          [] s = "copy"   -> <<"c", "o", "p", "y">>
          [] s = "fast"   -> <<"f", "a", "s", "t">>
          [] s = "0x"     -> <<"0", "x">>
          [] s = "-1x"    -> <<"-", "1", "x">>]

Chars(s) == IF s \in DOMAIN Spelling THEN Spelling[s] ELSE <<"?">>

Digits == {"0", "1", "2", "3", "4", "5", "6", "7", "8", "9"}

DigitVal(c) ==
    CASE c = "0" -> 0 [] c = "1" -> 1 [] c = "2" -> 2 [] c = "3" -> 3
      [] c = "4" -> 4 [] c = "5" -> 5 [] c = "6" -> 6 [] c = "7" -> 7
      [] c = "8" -> 8 [] c = "9" -> 9

RECURSIVE DigitsValue(_)
DigitsValue(cs) ==
    IF cs = <<>> THEN 0
    ELSE 10 * DigitsValue(SubSeq(cs, 1, Len(cs) - 1)) + DigitVal(cs[Len(cs)])

(* str.replace('x', '') *)
StripX(cs) == SelectSeq(cs, LAMBDA c : c # "x")

(* float(text) on a decimal literal: optional sign, digits with at most    *)
(* one point and at least one digit; anything else raises ValueError.      *)
ParseFloat(cs) ==
    LET signed == cs # <<>> /\ cs[1] \in {"-", "+"}
        body   == IF signed THEN Tail(cs) ELSE cs
        dots   == {i \in 1..Len(body) : body[i] = "."}
        dot    == IF dots = {} THEN Len(body) + 1 ELSE CHOOSE i \in dots : TRUE
        ip     == SubSeq(body, 1, dot - 1)
        fp     == SubSeq(body, dot + 1, Len(body))
        ok     == /\ Cardinality(dots) <= 1
                  /\ Len(ip) + Len(fp) >= 1
                  /\ \A i \in 1..Len(ip) : ip[i] \in Digits
                  /\ \A i \in 1..Len(fp) : fp[i] \in Digits
        mag    == Rat(DigitsValue(ip) * Pow(10, Len(fp)) + DigitsValue(fp),
                      Pow(10, Len(fp)))
    IN  IF ~ok THEN [ok |-> FALSE]
        ELSE [ok |-> TRUE,
              val |-> IF signed /\ cs[1] = "-" THEN <<-mag[1], mag[2]>> ELSE mag]

(* float(value.replace('x', '')) *)
ParseSpeedKeepsX(value) == ParseFloat(Chars(value))

ParseSpeed(value) == ParseFloat(StripX(Chars(value)))

-----------------------------------------------------------------------------
(* The atempo chain: both builders carry the same text                     *)
(* (converter.py 275-292, profiles.py 614-631).                            *)

Stage(name, x) == [f |-> name, x |-> x]

(* while remaining_speed > 2 *)
SpeedUpContinuesOffByOne(remaining) == ~RLess(remaining, Two)

SpeedUpContinues(remaining) == RLess(Two, remaining)

(* while remaining_speed < 0.5 *)
SlowDownContinuesOffByOne(remaining) == ~RLess(Half, remaining)

SlowDownContinues(remaining) == RLess(remaining, Half)

(* The two loops, unrolled at most MaxIter times; done = FALSE when the    *)
(* loop has not exited by then.                                            *)
RECURSIVE SpeedUpLoop(_, _, _)
SpeedUpLoop(stages, remaining, fuel) ==
    IF SpeedUpContinues(remaining)
    THEN IF fuel = 0
         THEN [done |-> FALSE, stages |-> stages]
         ELSE SpeedUpLoop(Append(stages, Stage("atempo", Two)),
                          RDiv(remaining, Two), fuel - 1)
    ELSE [done |-> TRUE, stages |-> Append(stages, Stage("atempo", remaining))]

RECURSIVE SlowDownLoop(_, _, _)
SlowDownLoop(stages, remaining, fuel) ==
    IF SlowDownContinues(remaining)
    THEN IF fuel = 0
         THEN [done |-> FALSE, stages |-> stages]
         ELSE SlowDownLoop(Append(stages, Stage("atempo", Half)),
                           RMul(remaining, Two), fuel - 1)
    ELSE [done |-> TRUE, stages |-> Append(stages, Stage("atempo", remaining))]

AtempoChain(speed) ==
    IF RLess(Two, speed) THEN SpeedUpLoop(<<>>, speed, MaxIter)
    ELSE IF RLess(speed, Half) THEN SlowDownLoop(<<>>, speed, MaxIter)
    ELSE [done |-> TRUE, stages |-> <<Stage("atempo", speed)>>]

-----------------------------------------------------------------------------
(* The built-in defaults (profiles.py 16-188) *)

DefaultSchema ==
    [video_codecs |-> <<"copy", "libx264", "libx265", "libvpx-vp9", "mpeg4", "prores">>,
     resolutions |-> <<"copy", "3840x2160", "2560x1440", "1920x1080", "1280x720",
                       "854x480", "640x360", "custom (e.g., 720x1280)">>,
     video_bitrates |-> <<"copy", "1M", "2M", "4M", "6M", "8M", "10M", "12M", "15M", "20M">>,
     crf_values |-> <<"copy", "16", "17", "18", "19", "20", "21", "22", "23", "24",
                      "25", "26", "27", "28">>,
     framerates |-> <<"copy", "23.976", "24", "25", "29.97", "30", "48", "50", "59.94", "60">>,
     pixel_formats |-> <<"copy", "yuv420p", "yuv422p", "yuv444p", "rgb24",
                         "yuv420p10le", "yuv422p10le">>,
     gop_sizes |-> <<"copy", "30", "60", "120">>,
     presets |-> <<"copy", "ultrafast", "superfast", "veryfast", "faster", "fast",
                   "medium", "slow", "slower", "veryslow", "placebo">>,
     tune_options |-> <<"copy", "film", "animation", "grain", "stillimage",
                        "fastdecode", "zerolatency">>,
     speed_controls |-> <<"0.25x", "0.5x", "0.75x", "1x", "1.25x", "1.5x", "1.75x",
                          "2x", "4x", "10x">>,
     audio_codecs |-> <<"copy", "aac", "libmp3lame", "flac", "opus", "pcm_s16le",
                        "pcm_s24le", "vorbis">>,
     audio_bitrates |-> <<"copy", "96k", "128k", "160k", "192k", "224k", "256k",
                          "320k", "384k", "448k", "512k">>,
     sample_rates |-> <<"copy", "22050", "32000", "44100", "48000", "88200", "96000">>,
     channel_layouts |-> <<"copy", "1", "2", "2.1", "3", "4", "5.0", "5.1", "6.1", "7.1">>,
     audio_speeds |-> <<"0.25x", "0.5x", "0.75x", "1x", "1.25x", "1.5x", "1.75x",
                        "2x", "4x", "10x">>,
     containers |-> <<"mp4", "mkv", "mov", "webm", "avi", "ts", "mxf", "mp3", "m4a",
                      "flac", "wav", "ogg">>]

Mp3Audio(speed) ==
    [container |-> "mp3",
     audio |-> [codec |-> "libmp3lame", bitrate |-> "320k", sample_rate |-> "44100",
                channels |-> "2", audio_speed |-> speed]]

H264Video(resolution, bitrate, crf, preset, speed) ==
    [codec |-> "libx264", resolution |-> resolution, bitrate |-> bitrate, crf |-> crf,
     fps |-> "30", pixel_format |-> "yuv420p", gop |-> "60", preset |-> preset,
     tune |-> "film", speed_control |-> speed]

AacAudio(bitrate, speed) ==
    [codec |-> "aac", bitrate |-> bitrate, sample_rate |-> "48000", channels |-> "2",
     audio_speed |-> speed]

DefaultAudioProfiles ==
    [mp3_high |-> Mp3Audio("1x"),
     aac_high |-> [container |-> "m4a", audio |-> AacAudio("256k", "1x")],
     double_speed |-> Mp3Audio("2x"),
     half_speed |-> Mp3Audio("0.5x")]

DefaultVideoProfiles ==
    [youtube_1080p |->
        [container |-> "mp4",
         video |-> H264Video("1920x1080", "copy", "21", "slow", "1x"),
         \* the one default whose audio section has no audio_speed (lines 74-79)
         audio |-> [codec |-> "aac", bitrate |-> "128k", sample_rate |-> "48000",
                    channels |-> "2"]],
     youtube_4k |->
        [container |-> "mp4",
         video |-> H264Video("3840x2160", "copy", "18", "slow", "1x"),
         audio |-> AacAudio("192k", "1x")],
     h264_web_optimized |->
        [container |-> "mp4",
         video |-> H264Video("1920x1080", "2M", "23", "medium", "1x"),
         audio |-> AacAudio("192k", "1x")],
     fast_motion |->
        [container |-> "mp4",
         video |-> H264Video("1920x1080", "2M", "23", "medium", "2x"),
         audio |-> AacAudio("192k", "2x")],
     slow_motion |->
        [container |-> "mp4",
         video |-> H264Video("1920x1080", "2M", "23", "medium", "0.5x"),
         audio |-> AacAudio("192k", "0.5x")]]

DefaultProfiles ==
    [audio |-> DefaultAudioProfiles, video |-> DefaultVideoProfiles,
     schema |-> DefaultSchema]

-----------------------------------------------------------------------------
(* The profile store: FormatProfiles (profiles.py) *)

Categories == {"audio", "video", "schema"}

(* _save_profiles: json.dump of the whole collection. The document holds   *)
(* only dicts and lists of strings, which json.load gives back unchanged.  *)
SaveProfilesWithoutSchema(coll) == [state |-> "ok", doc |-> Del(coll, "schema")]

SaveProfiles(coll) == [state |-> "ok", doc |-> coll]

(* The migration of one video profile (lines 201-211) *)
MigrateVideoProfileRemovesAudioSpeed(profile) ==
    IF "video" \notin DOMAIN profile THEN profile
    ELSE
        LET audio == Get(profile, "audio", EmptyDict)
            video == Put(profile["video"], "speed_control",
                         Get(audio, "audio_speed", "1x"))
            p1    == Put(profile, "video", video)
        IN  IF "audio" \in DOMAIN profile
            THEN Put(p1, "audio", Del(profile["audio"], "audio_speed"))
            ELSE p1

MigrateVideoProfile(profile) ==
    IF "video" \notin DOMAIN profile THEN profile
    ELSE
        LET audio == Get(profile, "audio", EmptyDict)
            video == IF "speed_control" \notin DOMAIN profile["video"]
                     THEN Put(profile["video"], "speed_control",
                              Get(audio, "audio_speed", "1x"))
                     ELSE profile["video"]
            p1    == Put(profile, "video", video)
        IN  IF "audio" \in DOMAIN profile /\ "audio_speed" \in DOMAIN profile["audio"]
            THEN Put(p1, "audio",
                     Put(profile["audio"], "audio_speed", video["speed_control"]))
            ELSE p1

(* The migration of one audio profile (lines 213-216) *)
MigrateAudioProfile(profile) ==
    IF "audio" \in DOMAIN profile /\ "audio_speed" \notin DOMAIN profile["audio"]
    THEN Put(profile, "audio", Put(profile["audio"], "audio_speed", "1x"))
    ELSE profile

(* The migration loop (lines 196-216) *)
MigrateProfiles(coll) ==
    [category \in DOMAIN coll |->
        IF category = "video"
        THEN [n \in DOMAIN coll[category] |-> MigrateVideoProfile(coll[category][n])]
        ELSE IF category = "audio"
        THEN [n \in DOMAIN coll[category] |-> MigrateAudioProfile(coll[category][n])]
        ELSE coll[category]]

(* _load_profiles. A file that does not parse raises JSONDecodeError; the  *)
(* handler calls _load_profiles again, the file still exists, so the same  *)
(* branch runs again, until the interpreter raises RecursionError, which   *)
(* the handler does not catch.                                             *)
LoadProfiles(file) ==
    IF file.state = "absent"
    THEN [raised |-> "no", profiles |-> DefaultProfiles,
          disk |-> SaveProfiles(DefaultProfiles)]
    ELSE IF file.state = "corrupt"
    THEN [raised |-> "RecursionError", profiles |-> EmptyDict, disk |-> file]
    ELSE [raised |-> "no", profiles |-> MigrateProfiles(file.doc),
          disk |-> SaveProfiles(MigrateProfiles(file.doc))]

GetSchema(coll) == Get(coll, "schema", EmptyDict)

(* f"{section}_{param}s" *)
ParamType(section, param) == section \o "_" \o param \o "s"

(* f"audio_{param}s" if param != "codec" else "audio_codecs" *)
AudioParamType(param) == IF param # "codec" THEN "audio_" \o param \o "s" ELSE "audio_codecs"

(* the negation of: param_type in schema and value != "copy" and value not in schema[param_type] *)
ParamAccepted(schema, param_type, value) ==
    ~(/\ param_type \in DOMAIN schema
      /\ value # "copy"
      /\ value \notin Range(schema[param_type]))

(* settings.get("container") not in schema.get("containers", []) *)
ContainerRejectedNever(schema, settings) == FALSE

ContainerRejected(schema, settings) ==
    Get(settings, "container", NONE) \notin Range(Get(schema, "containers", <<>>))

(* _validate_profile: the verdict, and the settings dict as the call leaves *)
(* it (line 254 writes audio_speed into the caller's audio dict).           *)
ValidateProfile(coll, category, settings) ==
    LET schema         == GetSchema(coll)
        video_settings == Get(settings, "video", EmptyDict)
        audio_settings == Get(settings, "audio", EmptyDict)
        speed_control  == Get(video_settings, "speed_control", "1x")
        audio_synced   == Put(audio_settings, "audio_speed", speed_control)
        settings_after == IF "audio" \in DOMAIN settings
                          THEN Put(settings, "audio", audio_synced)
                          ELSE settings
        audio_checked  == IF "audio" \in DOMAIN settings
                          THEN audio_synced ELSE audio_settings
    IN  IF DOMAIN schema = {}
        THEN [ok |-> TRUE, settings |-> settings]
        ELSE IF ContainerRejected(schema, settings)
        THEN [ok |-> FALSE, settings |-> settings]
        ELSE IF category = "video"
        THEN IF speed_control \notin Range(Get(schema, "speed_controls", <<>>))
             THEN [ok |-> FALSE, settings |-> settings]
             ELSE [ok |-> /\ \A param \in (DOMAIN video_settings) \ {"speed_control"} :
                               ParamAccepted(schema, "video_" \o param \o "s",
                                             video_settings[param])
                          /\ \A param \in (DOMAIN audio_checked) \ {"audio_speed"} :
                               ParamAccepted(schema, AudioParamType(param),
                                             audio_checked[param]),
                   settings |-> settings_after]
        ELSE IF category = "audio"
        THEN [ok |-> \A param \in DOMAIN audio_settings :
                        ParamAccepted(schema, AudioParamType(param),
                                      audio_settings[param]),
              settings |-> settings]
        ELSE [ok |-> TRUE, settings |-> settings]

(* get_profile: None when the category or the name is not there *)
HasProfileVideoOnly(coll, category, name) ==
    category = "video" /\ category \in DOMAIN coll /\ name \in DOMAIN coll[category]

HasProfile(coll, category, name) ==
    category \in DOMAIN coll /\ name \in DOMAIN coll[category]

(* self.profiles[category][name] = settings *)
StoreUnderKeepsExisting(coll, category, name, settings) ==
    IF name \in DOMAIN coll[category] THEN coll
    ELSE Put(coll, category, Put(coll[category], name, settings))

StoreUnder(coll, category, name, settings) ==
    Put(coll, category, Put(coll[category], name, settings))

(* add_profile: what it returns and the collection it leaves *)
AddResult(coll, category, name, settings) ==
    LET v     == ValidateProfile(coll, category, settings)
        coll1 == IF category \in DOMAIN coll THEN coll
                 ELSE Put(coll, category, EmptyDict)
    IN  IF category \notin {"audio", "video"}
        THEN [ret |-> FALSE, validated |-> FALSE, valid |-> FALSE, coll |-> coll,
              saved |-> FALSE]
        ELSE IF ~v.ok
        THEN [ret |-> FALSE, validated |-> TRUE, valid |-> FALSE, coll |-> coll,
              saved |-> FALSE]
        ELSE [ret |-> TRUE, validated |-> TRUE, valid |-> TRUE,
              coll |-> StoreUnder(coll1, category, name, v.settings),
              saved |-> TRUE]

(* remove_profile *)
RemoveResult(coll, category, name) ==
    IF HasProfile(coll, category, name)
    THEN [ret |-> TRUE, coll |-> Put(coll, category, Del(coll[category], name)),
          saved |-> TRUE]
    ELSE [ret |-> FALSE, coll |-> coll, saved |-> FALSE]

(* edit_profile_parameter, for a category that holds profiles. The edited  *)
(* profile is a copy (lines 455-456); the stored one is replaced by it.    *)
EditResult(coll, category, name, section, param, new_value) ==
    LET schema     == GetSchema(coll)
        param_type == ParamType(section, param)
    IN  IF category \notin {"audio", "video"} \/ ~HasProfile(coll, category, name)
        THEN [ret |-> FALSE, coll |-> coll, saved |-> FALSE]
        ELSE
        LET profile == coll[category][name]
        IN  IF DOMAIN profile = {}
            THEN [ret |-> FALSE, coll |-> coll, saved |-> FALSE]
            ELSE IF section \notin DOMAIN profile \/ param \notin DOMAIN profile[section]
            THEN [ret |-> FALSE, coll |-> coll, saved |-> FALSE]
            ELSE IF ~ParamAccepted(schema, param_type, new_value)
            THEN [ret |-> FALSE, coll |-> coll, saved |-> FALSE]
            ELSE [ret |-> TRUE,
                  coll |-> Put(coll, category,
                               Put(coll[category], name,
                                   Put(profile, section,
                                       Put(profile[section], param, new_value)))),
                  saved |-> TRUE]

(* get_parameter_options *)
GetParameterOptions(coll, section, param) ==
    LET schema == GetSchema(coll)
    IN  IF param = "speed_control" THEN Get(schema, "speed_controls", <<>>)
        ELSE IF param = "audio_speed" THEN Get(schema, "audio_speeds", <<>>)
        ELSE Get(schema, ParamType(section, param), <<>>)

(* get_editable_parameters *)
GetEditableParameters(category) ==
    IF category = "video"
    THEN [video |-> {"codec", "resolution", "bitrate", "crf", "fps", "pixel_format",
                     "gop", "preset", "tune", "speed_control"},
          audio |-> {"codec", "bitrate", "sample_rate", "channels"}]
    ELSE IF category = "audio"
    THEN [audio |-> {"codec", "bitrate", "sample_rate", "channels", "audio_speed"}]
    ELSE EmptyDict

-----------------------------------------------------------------------------
(* The command builders *)

NoGroups == [raised |-> "no", groups |-> <<>>]

(* if section.get(key) != "copy": cmd.extend([flag, section[key]])         *)
SubFlag(section, key, flag) ==
    IF Get(section, key, NONE) = "copy" THEN NoGroups
    ELSE IF key \in DOMAIN section
    THEN [raised |-> "no", groups |-> << <<flag, section[key]>> >>]
    ELSE [raised |-> "KeyError", groups |-> <<>>]

(* a run of such statements, in order, up to the first that raises *)
RECURSIVE SubFlags(_, _)
SubFlags(section, flags) ==
    IF flags = <<>> THEN NoGroups
    ELSE LET first == SubFlag(section, flags[1][1], flags[1][2])
             rest  == SubFlags(section, Tail(flags))
         IN  IF first.raised # "no" THEN first
             ELSE [raised |-> rest.raised, groups |-> first.groups \o rest.groups]

(* converter.py 249-262 *)
ConvertVideoFlags ==
    << <<"bitrate", "-b:v">>, <<"resolution", "-s">>, <<"fps", "-r">>,
       <<"pixel_format", "-pix_fmt">>, <<"preset", "-preset">>, <<"tune", "-tune">>,
       <<"crf", "-crf">> >>

(* profiles.py 582-593 *)
GenerateVideoFlags ==
    << <<"bitrate", "-b:v">>, <<"resolution", "-s">>, <<"fps", "-r">>,
       <<"pixel_format", "-pix_fmt">>, <<"preset", "-preset">>, <<"tune", "-tune">> >>

(* converter.py 297-302, profiles.py 605-610 *)
AudioFlags ==
    << <<"bitrate", "-b:a">>, <<"sample_rate", "-ar">>, <<"channels", "-ac">> >>

(* cmd.extend(['-filter:v', ','.join(video_filters)]) and the audio twin *)
FilterGroupsAudioFirst(video_filters, audio_filters) ==
    (IF audio_filters # <<>> THEN << <<"-filter:a", audio_filters>> >> ELSE <<>>)
    \o (IF video_filters # <<>> THEN << <<"-filter:v", video_filters>> >> ELSE <<>>)

FilterGroups(video_filters, audio_filters) ==
    (IF video_filters # <<>> THEN << <<"-filter:v", video_filters>> >> ELSE <<>>)
    \o (IF audio_filters # <<>> THEN << <<"-filter:a", audio_filters>> >> ELSE <<>>)

(* converter.py 225-233: the speed both streams are built from *)
TargetSpeed(profile, category) ==
    IF category = "video" /\ "video" \in DOMAIN profile
    THEN Get(profile["video"], "speed_control", "1x")
    ELSE IF "audio" \in DOMAIN profile
    THEN Get(profile["audio"], "audio_speed", "1x")
    ELSE "1x"

(* converter.py 242-244: stream copy cannot change speed *)
ForceVideoCodec(video, changed) ==
    IF changed /\ Get(video, "codec", NONE) = "copy"
    THEN Put(video, "codec", "libx264")
    ELSE video

(* converter.py 271-273 *)
ForceAudioCodec(audio, changed) ==
    IF changed /\ Get(audio, "codec", NONE) = "copy"
    THEN Put(audio, "codec", "aac")
    ELSE audio

(* convert_file_with_profile, lines 218-319: the command handed to the     *)
(* engine, or the exception raised, and the profile dict as the call       *)
(* leaves it (lines 231, 244 and 273 write into the caller's dict).        *)
ConvertFileWithProfile(profile, category, input_path, output_path) ==
    LET video_branch == category = "video" /\ "video" \in DOMAIN profile
        audio_branch == "audio" \in DOMAIN profile
        target_speed == TargetSpeed(profile, category)
        changed      == target_speed # "1x"
        parsed       == ParseSpeed(target_speed)
        p1 == IF video_branch /\ audio_branch
              THEN Put(profile, "audio",
                       Put(profile["audio"], "audio_speed", target_speed))
              ELSE profile
        video_raised ==
            IF ~(video_branch /\ changed) THEN "no"
            ELSE IF ~parsed.ok THEN "ValueError"
            ELSE IF parsed.val[1] = 0 THEN "ZeroDivisionError"
            ELSE "no"
        video_filters ==
            IF video_branch /\ changed
            THEN << Stage("setpts", RDiv(One, parsed.val)) >>
            ELSE <<>>
        p2 == IF video_branch
              THEN Put(p1, "video", ForceVideoCodec(p1["video"], changed))
              ELSE p1
        video_sub ==
            IF video_branch /\ Get(p2["video"], "codec", NONE) # "copy"
            THEN SubFlags(p2["video"], ConvertVideoFlags)
            ELSE NoGroups
        video_groups ==
            IF video_branch
            THEN << <<"-c:v", Get(p2["video"], "codec", "copy")>> >> \o video_sub.groups
            ELSE <<>>
        audio_raised ==
            IF audio_branch /\ changed /\ ~parsed.ok THEN "ValueError" ELSE "no"
        p3 == IF audio_branch
              THEN Put(p2, "audio", ForceAudioCodec(p2["audio"], changed))
              ELSE p2
        chain == IF audio_branch /\ changed
                 THEN AtempoChain(parsed.val)
                 ELSE [done |-> TRUE, stages |-> <<>>]
        audio_sub ==
            IF audio_branch /\ Get(p3["audio"], "codec", NONE) # "copy"
            THEN SubFlags(p3["audio"], AudioFlags)
            ELSE NoGroups
        audio_groups ==
            IF audio_branch
            THEN << <<"-c:a", Get(p3["audio"], "codec", "copy")>> >> \o audio_sub.groups
            ELSE <<>>
    IN  IF video_raised # "no"
        THEN [raised |-> video_raised, cmd |-> <<>>, profile |-> p1]
        ELSE IF video_sub.raised # "no"
        THEN [raised |-> video_sub.raised, cmd |-> <<>>, profile |-> p2]
        ELSE IF audio_raised # "no"
        THEN [raised |-> audio_raised, cmd |-> <<>>, profile |-> p2]
        ELSE IF ~chain.done
        THEN [raised |-> "never returns", cmd |-> <<>>, profile |-> p3]
        ELSE IF audio_sub.raised # "no"
        THEN [raised |-> audio_sub.raised, cmd |-> <<>>, profile |-> p3]
        ELSE [raised |-> "no",
              cmd |-> << <<"ffmpeg">>, <<"-y">>, <<"-progress">>, <<"pipe:1">>,
                         <<"-nostats">>, <<"-i", input_path>> >>
                      \o video_groups \o audio_groups
                      \o FilterGroups(video_filters, chain.stages)
                      \o << <<output_path>> >>,
              profile |-> p3]

(* generate_ffmpeg_command, lines 578-598: the video stream *)
GenerateVideo(video) ==
    IF Get(video, "codec", NONE) = "copy"
    THEN [raised |-> "no", groups |-> << <<"-c:v", "copy">> >>, filters |-> <<>>]
    ELSE IF "codec" \notin DOMAIN video
    THEN [raised |-> "KeyError", groups |-> <<>>, filters |-> <<>>]
    ELSE
    LET sub     == SubFlags(video, GenerateVideoFlags)
        speed   == Get(video, "speed_control", "1x")
        parsed  == ParseSpeed(speed)
        groups  == << <<"-c:v", video["codec"]>> >> \o sub.groups
    IN  IF sub.raised # "no"
        THEN [raised |-> sub.raised, groups |-> <<>>, filters |-> <<>>]
        ELSE IF speed = "1x"
        THEN [raised |-> "no", groups |-> groups, filters |-> <<>>]
        ELSE IF ~parsed.ok
        THEN [raised |-> "ValueError", groups |-> <<>>, filters |-> <<>>]
        ELSE IF parsed.val[1] = 0
        THEN [raised |-> "ZeroDivisionError", groups |-> <<>>, filters |-> <<>>]
        ELSE [raised |-> "no", groups |-> groups,
              filters |-> << Stage("setpts", RDiv(One, parsed.val)) >>]

(* generate_ffmpeg_command, lines 601-633: the audio stream *)
GenerateAudio(audio) ==
    IF Get(audio, "codec", NONE) = "copy"
    THEN [raised |-> "no", groups |-> << <<"-c:a", "copy">> >>, filters |-> <<>>]
    ELSE IF "codec" \notin DOMAIN audio
    THEN [raised |-> "KeyError", groups |-> <<>>, filters |-> <<>>]
    ELSE
    LET sub     == SubFlags(audio, AudioFlags)
        speed   == Get(audio, "audio_speed", "1x")
        parsed  == ParseSpeed(speed)
        chain   == AtempoChain(parsed.val)
        groups  == << <<"-c:a", audio["codec"]>> >> \o sub.groups
    IN  IF sub.raised # "no"
        THEN [raised |-> sub.raised, groups |-> <<>>, filters |-> <<>>]
        ELSE IF speed = "1x"
        THEN [raised |-> "no", groups |-> groups, filters |-> <<>>]
        ELSE IF ~parsed.ok
        THEN [raised |-> "ValueError", groups |-> <<>>, filters |-> <<>>]
        ELSE IF ~chain.done
        THEN [raised |-> "never returns", groups |-> <<>>, filters |-> <<>>]
        ELSE [raised |-> "no", groups |-> groups, filters |-> chain.stages]

(* generate_ffmpeg_command, lines 564-644: the argument groups it joins    *)
(* with spaces, found = FALSE when it returns None.                        *)
GenerateFfmpegCommand(coll, input_file, output_file, category, profile_name) ==
    IF ~HasProfile(coll, category, profile_name)
       \/ DOMAIN coll[category][profile_name] = {}
    THEN [found |-> FALSE, raised |-> "no", cmd |-> <<>>]
    ELSE
    LET profile == coll[category][profile_name]
        v == IF category = "video" /\ "video" \in DOMAIN profile
             THEN GenerateVideo(profile["video"])
             ELSE [raised |-> "no", groups |-> <<>>, filters |-> <<>>]
        a == IF "audio" \in DOMAIN profile
             THEN GenerateAudio(profile["audio"])
             ELSE [raised |-> "no", groups |-> <<>>, filters |-> <<>>]
    IN  IF v.raised # "no" THEN [found |-> TRUE, raised |-> v.raised, cmd |-> <<>>]
        ELSE IF a.raised # "no" THEN [found |-> TRUE, raised |-> a.raised, cmd |-> <<>>]
        ELSE [found |-> TRUE, raised |-> "no",
              cmd |-> << <<"ffmpeg">>, <<"-i", input_file>> >>
                      \o v.groups \o a.groups
                      \o FilterGroups(v.filters, a.filters)
                      \o << <<output_file>> >>]

-----------------------------------------------------------------------------
(* Inputs of the calls *)

(* An older file: profiles written before the speed fields existed *)
LegacyDoc ==
    [audio |-> [double_speed |->
                    [container |-> "mp3",
                     audio |-> [codec |-> "libmp3lame", bitrate |-> "320k",
                                sample_rate |-> "44100", channels |-> "2"]]],
     video |-> [fast_motion |->
                    [container |-> "mp4",
                     video |-> [codec |-> "libx264", resolution |-> "1920x1080",
                                bitrate |-> "2M", crf |-> "23", fps |-> "30",
                                pixel_format |-> "yuv420p", gop |-> "60",
                                preset |-> "medium", tune |-> "film"],
                     audio |-> AacAudio("192k", "2x")],
                youtube_1080p |->
                    [container |-> "mp4",
                     video |-> [codec |-> "copy", resolution |-> "copy",
                                bitrate |-> "copy", crf |-> "copy", fps |-> "copy",
                                pixel_format |-> "copy", gop |-> "copy",
                                preset |-> "copy", tune |-> "copy"],
                     audio |-> [codec |-> "copy", bitrate |-> "copy",
                                sample_rate |-> "copy", channels |-> "copy"]]],
     schema |-> DefaultSchema]

(* A file with profiles and no schema key, and one whose schema is {} *)
NoSchemaDoc ==
    [audio |-> [double_speed |-> Mp3Audio("2x")],
     video |-> [fast_motion |-> DefaultVideoProfiles["fast_motion"]]]

EmptySchemaDoc ==
    [audio |-> [double_speed |-> Mp3Audio("2x")],
     video |-> [fast_motion |-> DefaultVideoProfiles["fast_motion"]],
     schema |-> EmptyDict]

InitialFiles ==
    {[state |-> "absent"], [state |-> "corrupt"],
     [state |-> "ok", doc |-> LegacyDoc],
     [state |-> "ok", doc |-> NoSchemaDoc],
     [state |-> "ok", doc |-> EmptySchemaDoc]}

NewVideo(container, codec, speed, audio_speed) ==
    [container |-> container,
     video |-> [codec |-> codec, resolution |-> "1280x720", bitrate |-> "copy",
                crf |-> "23", fps |-> "30", pixel_format |-> "yuv420p", gop |-> "60",
                preset |-> "medium", tune |-> "film", speed_control |-> speed],
     audio |-> [codec |-> "copy", bitrate |-> "copy", sample_rate |-> "copy",
                channels |-> "copy", audio_speed |-> audio_speed]]

(* <<category, settings>> pairs handed to add_profile *)
AddInputs ==
    {<<"video", NewVideo("mp4", "copy", "4x", "1x")>>,
     <<"video", NewVideo("exe", "libx264", "1x", "1x")>>,
     <<"video", NewVideo("mkv", "libx264", "3x", "3x")>>,
     <<"video", [container |-> "mp4",
                 video |-> [codec |-> "libx264", speed_control |-> "0.25x"]]>>,
     <<"audio", Mp3Audio("4x")>>,
     <<"audio", Mp3Audio("3x")>>,
     <<"audio", [container |-> "exe", audio |-> AacAudio("192k", "1x")]>>,
     <<"audio", [container |-> "m4a", audio |-> AacAudio("999k", "1x")]>>,
     <<"video", EmptyDict>>,
     <<"video", Mp3Audio("4x")>>,
     <<"schema", Mp3Audio("1x")>>}

AddNames == {"custom", "fast_motion"}

RemoveInputs ==
    {<<"video", "fast_motion">>, <<"audio", "custom">>, <<"video", "custom">>,
     <<"schema", "containers">>}

(* the profiles the calls below name *)
TargetProfiles ==
    {<<"video", "fast_motion">>, <<"video", "youtube_1080p">>,
     <<"audio", "double_speed">>, <<"video", "custom">>}

(* <<section, param, new_value>> handed to edit_profile_parameter *)
EditInputs ==
    {<<"video", "speed_control", "4x">>, <<"video", "speed_control", "1x">>,
     <<"video", "speed_control", "fast">>, <<"audio", "audio_speed", "3x">>,
     <<"video", "codec", "copy">>,
     <<"video", "codec", "h266">>, <<"audio", "codec", "copy">>,
     <<"audio", "bitrate", "999k">>, <<"video", "gop", "7">>}

(* the option the user picks in the edit menu, among those it offers *)
MenuPicks == {"copy", "1x", "4x", "96k"}

InputPath == "in.mov"

OutputPath == "out.mp4"

-----------------------------------------------------------------------------
(* The calls *)

Init ==
    \E file \in InitialFiles :
        LET r == LoadProfiles(file)
        IN  /\ profiles = r.profiles
            /\ disk = r.disk
            /\ obj = IF r.raised = "no" THEN "ready" ELSE "failed"
            /\ last = [op |-> "load", file |-> file.state, raised |-> r.raised]
            /\ nops = 0

Called == obj = "ready" /\ nops < MaxOps /\ nops' = nops + 1 /\ UNCHANGED obj

(* a new process: FormatProfiles() again, on the file the last one left *)
Restart ==
    /\ Called
    /\ LET r == LoadProfiles(disk)
       IN  /\ profiles' = r.profiles
           /\ disk' = r.disk
           /\ last' = [op |-> "load", file |-> disk.state, raised |-> r.raised]

AddProfile ==
    /\ Called
    /\ \E input \in AddInputs, name \in AddNames :
        LET r == AddResult(profiles, input[1], name, input[2])
        IN  /\ profiles' = r.coll
            /\ disk' = IF r.saved THEN SaveProfiles(r.coll) ELSE disk
            /\ last' = [op |-> "add_profile", category |-> input[1], name |-> name,
                        settings |-> input[2], validated |-> r.validated,
                        valid |-> r.valid, ret |-> r.ret]

RemoveProfile ==
    /\ Called
    /\ \E input \in RemoveInputs :
        LET r == RemoveResult(profiles, input[1], input[2])
        IN  /\ profiles' = r.coll
            /\ disk' = IF r.saved THEN SaveProfiles(r.coll) ELSE disk
            /\ last' = [op |-> "remove_profile", category |-> input[1],
                        name |-> input[2], ret |-> r.ret]

(* edit_profile_parameter called directly (MediaConverter.edit_profile) *)
EditProfileParameter ==
    /\ Called
    /\ \E target \in TargetProfiles, input \in EditInputs :
        LET r == EditResult(profiles, target[1], target[2],
                            input[1], input[2], input[3])
        IN  /\ profiles' = r.coll
            /\ disk' = IF r.saved THEN SaveProfiles(r.coll) ELSE disk
            /\ last' = [op |-> "edit_profile_parameter", via |-> "api",
                        category |-> target[1], name |-> target[2],
                        section |-> input[1], param |-> input[2],
                        value |-> input[3], ret |-> r.ret]

(* One round of the edit menu, cli.py 707-799: the parameter and the value *)
(* are picked from what the menu shows, then lines 791-797.                *)
CliEditParameter ==
    /\ Called
    /\ \E target \in TargetProfiles :
        /\ HasProfile(profiles, target[1], target[2])
        /\ LET category == target[1]
               name     == target[2]
               profile  == profiles[category][name]
               sections == IF "video" \in DOMAIN profile
                           THEN {"video", "audio"} ELSE {"audio"}
           IN  \E section \in sections \cap DOMAIN GetEditableParameters(category) :
               \E param \in GetEditableParameters(category)[section] :
               \E new_value \in
                     Range(GetParameterOptions(profiles, section, param)) \cap MenuPicks :
                 LET r1 == EditResult(profiles, category, name, section, param, new_value)
                     r2 == IF r1.ret /\ category = "video" /\ param = "speed_control"
                           THEN EditResult(r1.coll, category, name,
                                           "audio", "audio_speed", new_value)
                           ELSE r1
                     after == IF r2.ret THEN r2.coll ELSE r1.coll
                 IN  /\ profiles' = after
                     /\ disk' = IF r1.saved THEN SaveProfiles(after) ELSE disk
                     /\ last' = [op |-> "edit_profile_parameter", via |-> "menu",
                                 category |-> category, name |-> name,
                                 section |-> section, param |-> param,
                                 value |-> new_value, ret |-> r1.ret]

(* convert_files, cli.py 831-910, for one selected file: the stored dict   *)
(* itself is handed to convert_file_with_profile, whose writes stay in it; *)
(* an exception is caught at line 912.                                     *)
ConvertFiles ==
    /\ Called
    /\ \E target \in TargetProfiles :
        /\ HasProfile(profiles, target[1], target[2])
        /\ DOMAIN profiles[target[1]][target[2]] # {}
        /\ LET r == ConvertFileWithProfile(profiles[target[1]][target[2]],
                                           target[1], InputPath, OutputPath)
           IN  /\ profiles' = Put(profiles, target[1],
                                  Put(profiles[target[1]], target[2], r.profile))
               /\ last' = [op |-> "convert_file_with_profile",
                           category |-> target[1], name |-> target[2],
                           given |-> profiles[target[1]][target[2]],
                           raised |-> r.raised, cmd |-> r.cmd]
    /\ UNCHANGED disk

(* convert_file, converter.py 131-140: the command from the stored profile *)
ConvertFile ==
    /\ Called
    /\ \E target \in TargetProfiles :
        LET r == GenerateFfmpegCommand(profiles, InputPath, OutputPath,
                                       target[1], target[2])
        IN  last' = [op |-> "generate_ffmpeg_command",
                     category |-> target[1], name |-> target[2],
                     given |-> IF r.found THEN profiles[target[1]][target[2]]
                               ELSE EmptyDict,
                     found |-> r.found, raised |-> r.raised, cmd |-> r.cmd]
    /\ UNCHANGED <<profiles, disk>>

Next ==
    \/ Restart
    \/ AddProfile
    \/ RemoveProfile
    \/ EditProfileParameter
    \/ CliEditParameter
    \/ ConvertFiles
    \/ ConvertFile

Spec == Init /\ [][Next]_vars

-----------------------------------------------------------------------------
(* The atempo chain on its own: a speed is drawn, the chain is built *)

TempoDenominators == {1, 3, 4, 1000, 4096}

TempoInputs == {Rat(n, d) : n \in 1..MaxNum, d \in TempoDenominators}

InitTempo ==
    /\ profiles = EmptyDict
    /\ disk = [state |-> "absent"]
    /\ obj = "none"
    /\ nops = 0
    /\ \E speed \in TempoInputs : last = [op |-> "speed", speed |-> speed]

BuildChain ==
    /\ last.op = "speed"
    /\ last' = [op |-> "atempo", speed |-> last.speed, chain |-> AtempoChain(last.speed)]
    /\ UNCHANGED <<profiles, disk, obj, nops>>

NextTempo == BuildChain

SpecTempo == InitTempo /\ [][NextTempo]_vars

-----------------------------------------------------------------------------
(* Vocabulary of the properties *)

RECURSIVE StageProduct(_)
StageProduct(stages) ==
    IF stages = <<>> THEN One
    ELSE RMul(stages[1].x, StageProduct(Tail(stages)))

(* ceil(log2(s/2)): the least k with 2^k >= s/2 *)
CeilLog2OfHalf(s) ==
    CHOOSE k \in 0..(MaxIter + 2) :
        /\ s[1] <= Pow(2, k + 1) * s[2]
        /\ \A j \in 0..(k - 1) : s[1] > Pow(2, j + 1) * s[2]

(* the least number of doublings that brings s to at least 0.5 *)
DoublingsToHalf(s) ==
    CHOOSE k \in 0..(MaxIter + 2) :
        /\ 2 * Pow(2, k) * s[1] >= s[2]
        /\ \A j \in 0..(k - 1) : 2 * Pow(2, j) * s[1] < s[2]

(* the store holds every option list of the built-in schema *)
BuiltInSchemaStored == DOMAIN GetSchema(profiles) = DOMAIN DefaultSchema

InUnitRange(x) == ~RLess(x, Half) /\ ~RLess(Two, x)

Built ==
    /\ last.op \in {"convert_file_with_profile", "generate_ffmpeg_command"}
    /\ last.raised = "no"
    /\ last.cmd # <<>>

HasGroup(cmd, flag) == \E i \in 1..Len(cmd) : cmd[i][1] = flag

GroupArg(cmd, flag) == cmd[CHOOSE i \in 1..Len(cmd) : cmd[i][1] = flag][2]

(* the effective speed of a build: video.speed_control for category video, *)
(* audio.audio_speed otherwise, "1x" when the field is absent              *)
EffectiveSpeed(profile, category) ==
    IF category = "video"
    THEN Get(Get(profile, "video", EmptyDict), "speed_control", "1x")
    ELSE Get(Get(profile, "audio", EmptyDict), "audio_speed", "1x")

-----------------------------------------------------------------------------
(* The properties *)

(* C1: every stored video profile has audio.audio_speed equal to           *)
(* video.speed_control (an absent field read as "1x", as every reader of   *)
(* the field does), in every state of a store that holds the built-in      *)
(* schema.                                                                 *)
SpeedsSynchronized ==
    (obj = "ready" /\ BuiltInSchemaStored /\ "video" \in DOMAIN profiles) =>
        \A name \in DOMAIN profiles["video"] :
            LET p == profiles["video"][name]
            IN  ("video" \in DOMAIN p /\ "audio" \in DOMAIN p) =>
                    Get(p["audio"], "audio_speed", "1x")
                        = Get(p["video"], "speed_control", "1x")

(* C2: right after a successful edit of video.speed_control to v on a      *)
(* stored video profile, its audio.audio_speed holds v too (an absent      *)
(* field read as "1x"; checked where the built-in schema is stored).       *)
SpeedEditWritesThrough ==
    (/\ last.op = "edit_profile_parameter"
     /\ BuiltInSchemaStored
     /\ last.category = "video"
     /\ last.section = "video"
     /\ last.param = "speed_control"
     /\ last.ret) =>
        LET p == profiles["video"][last.name]
        IN  "audio" \in DOMAIN p =>
                Get(p["audio"], "audio_speed", "1x") = last.value

(* C3: a command built for a video profile with video.codec = "copy" and a *)
(* speed_control other than "1x" has no "-c:v copy" selector and carries   *)
(* the setpts video filter, whichever builder made it (checked where the   *)
(* built-in schema is stored).                                             *)
SpeedChangeNeverCopiesVideo ==
    (/\ Built
     /\ BuiltInSchemaStored
     /\ last.category = "video"
     /\ "video" \in DOMAIN last.given
     /\ Get(last.given["video"], "codec", NONE) = "copy"
     /\ Get(last.given["video"], "speed_control", "1x") # "1x") =>
        /\ \A i \in 1..Len(last.cmd) :
              last.cmd[i][1] = "-c:v" => last.cmd[i][2] # "copy"
        /\ HasGroup(last.cmd, "-filter:v")
        /\ \E j \in DOMAIN GroupArg(last.cmd, "-filter:v") :
              GroupArg(last.cmd, "-filter:v")[j].f = "setpts"

(* C4: for 2 < s <= 1024 the chain is k = ceil(log2(s/2)) stages of 2.0    *)
(* followed by one stage s / 2^k, and the stages multiply to s.            *)
SpeedUpChainShape ==
    (/\ last.op = "atempo"
     /\ RLess(Two, last.speed)
     /\ ~RLess(<<1024, 1>>, last.speed)) =>
        LET s      == last.speed
            k      == CeilLog2OfHalf(s)
            stages == last.chain.stages
        IN  /\ last.chain.done
            /\ Len(stages) = k + 1
            /\ \A i \in 1..k : stages[i] = Stage("atempo", Two)
            /\ stages[k + 1] = Stage("atempo", Rat(s[1], s[2] * Pow(2, k)))
            /\ StageProduct(stages) = s

SpeedUpChainBuilt ==
    /\ last.op = "atempo"
    /\ last.speed = <<10, 1>>
    /\ last.chain.stages = <<Stage("atempo", Two), Stage("atempo", Two),
                             Stage("atempo", Two), Stage("atempo", <<5, 4>>)>>

(* C5: for 0 < s < 0.5 the chain is k stages of 0.5 followed by one stage  *)
(* s * 2^k, k the least number of doublings that brings s to at least 0.5; *)
(* every stage lies in [0.5, 2.0] and the stages multiply to s.            *)
SlowDownChainShape ==
    (/\ last.op = "atempo"
     /\ RLess(<<0, 1>>, last.speed)
     /\ RLess(last.speed, Half)) =>
        LET s      == last.speed
            k      == DoublingsToHalf(s)
            stages == last.chain.stages
        IN  /\ last.chain.done
            /\ Len(stages) = k + 1
            /\ \A i \in 1..k : stages[i] = Stage("atempo", Half)
            /\ stages[k + 1] = Stage("atempo", Rat(s[1] * Pow(2, k), s[2]))
            /\ \A i \in 1..(k + 1) : InUnitRange(stages[i].x)
            /\ StageProduct(stages) = s

SlowDownChainBuilt ==
    /\ last.op = "atempo"
    /\ last.speed = <<3, 16>>
    /\ last.chain.stages = <<Stage("atempo", Half), Stage("atempo", Half),
                             Stage("atempo", <<3, 4>>)>>

(* C6: a command built at effective speed "1x" has no -filter:v and no     *)
(* -filter:a flag, and its codec selectors carry the configured codecs     *)
(* (checked where the built-in schema is stored).                          *)
UnitSpeedLeavesStreamsAlone ==
    (/\ Built
     /\ BuiltInSchemaStored
     /\ last.category = "video" => "video" \in DOMAIN last.given
     /\ EffectiveSpeed(last.given, last.category) = "1x") =>
        /\ ~HasGroup(last.cmd, "-filter:v")
        /\ ~HasGroup(last.cmd, "-filter:a")
        /\ (/\ last.category = "video"
            /\ "codec" \in DOMAIN last.given["video"]) =>
                /\ HasGroup(last.cmd, "-c:v")
                /\ GroupArg(last.cmd, "-c:v") = last.given["video"]["codec"]
        /\ (/\ "audio" \in DOMAIN last.given
            /\ "codec" \in DOMAIN last.given["audio"]) =>
                /\ HasGroup(last.cmd, "-c:a")
                /\ GroupArg(last.cmd, "-c:a") = last.given["audio"]["codec"]

(* C7: in a command built for category video from a profile with a video   *)
(* and an audio section, -filter:v is there iff -filter:a is, and the      *)
(* audio tempo stages multiply to the speed whose reciprocal setpts uses   *)
(* (checked where the built-in schema is stored).                          *)
VideoAndAudioShareOneSpeed ==
    (/\ Built
     /\ BuiltInSchemaStored
     /\ last.category = "video"
     /\ "video" \in DOMAIN last.given
     /\ "audio" \in DOMAIN last.given) =>
        /\ HasGroup(last.cmd, "-filter:v") <=> HasGroup(last.cmd, "-filter:a")
        /\ HasGroup(last.cmd, "-filter:v") =>
              RMul(StageProduct(GroupArg(last.cmd, "-filter:a")),
                   GroupArg(last.cmd, "-filter:v")[1].x) = One

(* C8, as stated: validate("video", settings) is false whenever the        *)
(* container is not in the schema's containers list, whatever the schema.  *)
UnknownContainerRejectedUnderAnySchema ==
    (/\ last.op = "add_profile"
     /\ last.validated
     /\ last.category = "video"
     /\ ContainerRejected(GetSchema(profiles), last.settings)) =>
        ~last.valid

(* C8, amended: validate("video", settings) is false whenever the stored   *)
(* schema has at least one option list and the container is not in its     *)
(* containers list (a schema without that list has no container).          *)
UnknownContainerRejected ==
    (/\ last.op = "add_profile"
     /\ last.validated
     /\ last.category = "video"
     /\ DOMAIN GetSchema(profiles) # {}
     /\ Get(last.settings, "container", NONE)
            \notin Range(Get(GetSchema(profiles), "containers", <<>>))) =>
        /\ ~last.valid
        /\ ~last.ret

UnknownContainerWasRejected ==
    /\ last.op = "add_profile"
    /\ last.validated
    /\ last.category = "video"
    /\ "containers" \in DOMAIN GetSchema(profiles)
    /\ Get(last.settings, "container", NONE) = "exe"
    /\ Get(Get(last.settings, "video", EmptyDict), "codec", NONE) = "libx264"
    /\ ~last.valid
    /\ ~HasProfile(profiles, "video", last.name)

(* C9: validate("audio", settings) is false whenever audio.audio_speed is  *)
(* present and not in schema.audio_speeds.                                 *)
AudioSpeedOutsideSchemaRejected ==
    (/\ last.op = "add_profile"
     /\ last.validated
     /\ last.category = "audio"
     /\ "audio" \in DOMAIN last.settings
     /\ "audio_speed" \in DOMAIN last.settings["audio"]
     /\ "audio_speeds" \in DOMAIN GetSchema(profiles)
     /\ last.settings["audio"]["audio_speed"]
            \notin Range(GetSchema(profiles)["audio_speeds"])) =>
        /\ ~last.valid
        /\ ~last.ret

(* C10: edit_parameter fails whenever the new value is not "copy" and not  *)
(* in the non-empty option list get_parameter_options gives for the path.  *)
EditRejectsValueOutsideOptions ==
    (/\ last.op = "edit_profile_parameter"
     /\ last.value # "copy"
     /\ GetParameterOptions(profiles, last.section, last.param) # <<>>
     /\ last.value
            \notin Range(GetParameterOptions(profiles, last.section, last.param))) =>
        ~last.ret

(* C11: a load of a file that exists and does not parse returns, and the   *)
(* store then holds the built-in defaults, which are also what the file    *)
(* holds.                                                                  *)
CorruptFileRebuiltFromDefaults ==
    (last.op = "load" /\ last.file = "corrupt") =>
        /\ last.raised = "no"
        /\ obj = "ready"
        /\ profiles = DefaultProfiles
        /\ disk = [state |-> "ok", doc |-> DefaultProfiles]

-----------------------------------------------------------------------------
(* The migration on its own: a file of any shape the loader reads is       *)
(* loaded, and the file that load wrote is loaded again.                   *)

MaxLoads == 2

(* how a stored section holds its speed field: no section at all, a        *)
(* section without the field, or the field with a value                    *)
SectionShapes == {"none", "unset", "1x", "2x", "4x"}

StoredSection(base, key, shape) ==
    IF shape = "unset" THEN base ELSE Put(base, key, shape)

StoredProfile(container, video_shape, audio_shape) ==
    LET p0 == [container |-> container]
        p1 == IF video_shape = "none" THEN p0
              ELSE Put(p0, "video",
                       StoredSection([codec |-> "libx264", bitrate |-> "2M"],
                                     "speed_control", video_shape))
    IN  IF audio_shape = "none" THEN p1
        ELSE Put(p1, "audio",
                 StoredSection([codec |-> "aac", bitrate |-> "192k"],
                               "audio_speed", audio_shape))

StoredDocs ==
    {[video |-> [clip |-> StoredProfile("mp4", v, a)],
      audio |-> [song |-> StoredProfile("mp3", "none", b)],
      schema |-> DefaultSchema] : v \in SectionShapes, a \in SectionShapes,
                                  b \in SectionShapes}

InitMigrate ==
    \E doc \in StoredDocs :
        /\ profiles = EmptyDict
        /\ disk = [state |-> "ok", doc |-> doc]
        /\ obj = "none"
        /\ last = [op |-> "stored", orig |-> doc]
        /\ nops = 0

(* FormatProfiles() on the file as it is now *)
LoadStored ==
    /\ nops < MaxLoads
    /\ LET r == LoadProfiles(disk)
       IN  /\ profiles' = r.profiles
           /\ disk' = r.disk
           /\ obj' = IF r.raised = "no" THEN "ready" ELSE "failed"
           /\ last' = [op |-> "load", file |-> disk.state, raised |-> r.raised,
                       orig |-> last.orig, read |-> disk.doc]
    /\ nops' = nops + 1

NextMigrate == LoadStored

SpecMigrate == InitMigrate /\ [][NextMigrate]_vars

-----------------------------------------------------------------------------
(* The properties of the migration *)

(* C12: loading the file a first load wrote gives the collection the first *)
(* load gave, and writes the same file again.                              *)
MigrationIdempotent ==
    (last.op = "load" /\ nops >= 2) =>
        /\ profiles = last.read
        /\ disk = [state |-> "ok", doc |-> last.read]

SecondLoadOfMigratedFile ==
    /\ last.op = "load"
    /\ nops = 2
    /\ "video" \in DOMAIN last.orig["video"]["clip"]
    /\ "audio" \in DOMAIN last.orig["video"]["clip"]
    /\ "audio" \in DOMAIN last.orig["audio"]["song"]
    /\ "speed_control" \notin DOMAIN last.orig["video"]["clip"]["video"]
    /\ Get(last.orig["video"]["clip"]["audio"], "audio_speed", NONE) = "4x"
    /\ "audio_speed" \notin DOMAIN last.orig["audio"]["song"]["audio"]
    /\ profiles["video"]["clip"]["video"]["speed_control"] = "4x"
    /\ profiles["audio"]["song"]["audio"]["audio_speed"] = "1x"
    /\ profiles = last.read

(* C13: after a load, every video profile that had no video.speed_control  *)
(* has it set to its audio.audio_speed, "1x" if that was absent too; every *)
(* video profile with both sections has audio.audio_speed (read as "1x"    *)
(* when absent) equal to video.speed_control; every audio profile that had *)
(* no audio.audio_speed has it set to "1x".                                *)
MigrationFillsAndSyncsSpeeds ==
    (last.op = "load" /\ nops >= 1) =>
        /\ \A n \in DOMAIN last.read["video"] :
              LET before == last.read["video"][n]
                  after  == profiles["video"][n]
              IN  "video" \in DOMAIN before =>
                    /\ "speed_control" \notin DOMAIN before["video"] =>
                          Get(after["video"], "speed_control", NONE)
                            = Get(Get(before, "audio", EmptyDict), "audio_speed", "1x")
                    /\ "audio" \in DOMAIN before =>
                          Get(after["audio"], "audio_speed", "1x")
                            = Get(after["video"], "speed_control", NONE)
        /\ \A n \in DOMAIN last.read["audio"] :
              LET before == last.read["audio"][n]
                  after  == profiles["audio"][n]
              IN  ("audio" \in DOMAIN before
                   /\ "audio_speed" \notin DOMAIN before["audio"]) =>
                      Get(after["audio"], "audio_speed", NONE) = "1x"

-----------------------------------------------------------------------------
(* The properties of the store's calls *)

StoreOps == {"load", "add_profile", "remove_profile", "edit_profile_parameter"}

Persisted == disk = [state |-> "ok", doc |-> profiles]

(* C14: the file holds the in-memory collection when load has returned,    *)
(* and every load, add, remove or edit that starts with the file equal to  *)
(* the collection ends with the file equal to the collection.              *)
PersistedMatchesMemory ==
    /\ obj = "ready" => Persisted
    /\ [][(/\ last'.op \in StoreOps
           /\ last'.op = "load" \/ Persisted) => Persisted']_vars

AddedProfilePersisted ==
    /\ last.op = "add_profile"
    /\ last.ret
    /\ last.category = "video"
    /\ last.name = "custom"
    /\ disk.state = "ok"
    /\ HasProfile(disk.doc, "video", "custom")
    /\ disk.doc = profiles

(* the settings as _validate_profile hands them back: in the video branch  *)
(* of a non-empty schema, the audio section's audio_speed is overwritten   *)
(* with video.speed_control ("1x" when absent)                             *)
WithAudioSpeedSynced(coll, category, settings) ==
    IF /\ category = "video"
       /\ DOMAIN GetSchema(coll) # {}
       /\ "audio" \in DOMAIN settings
    THEN Put(settings, "audio",
             Put(settings["audio"], "audio_speed",
                 Get(Get(settings, "video", EmptyDict), "speed_control", "1x")))
    ELSE settings

-----------------------------------------------------------------------------
(* A profile across a restart: add, build, a new process on the file that  *)
(* add wrote, build again.                                                 *)

Builders == {"generate_ffmpeg_command", "convert_file_with_profile"}

(* One build of the named profile by either builder: what it gives and the *)
(* collection it leaves. convert_file_with_profile is handed the dict that *)
(* get_profile returns (cli.py 832, 905-910).                              *)
BuildWith(builder, coll, category, name) ==
    IF builder = "generate_ffmpeg_command"
    THEN [out  |-> GenerateFfmpegCommand(coll, InputPath, OutputPath, category, name),
          coll |-> coll]
    ELSE IF ~HasProfile(coll, category, name) \/ DOMAIN coll[category][name] = {}
    THEN [out  |-> [found |-> FALSE, raised |-> "no", cmd |-> <<>>],
          coll |-> coll]
    ELSE LET r == ConvertFileWithProfile(coll[category][name], category,
                                         InputPath, OutputPath)
         IN  [out  |-> [found |-> TRUE, raised |-> r.raised, cmd |-> r.cmd],
              coll |-> Put(coll, category, Put(coll[category], name, r.profile))]

(* a video profile written without video.speed_control *)
VideoWithoutSpeedControl ==
    [container |-> "mp4",
     video |-> [codec |-> "libx264", resolution |-> "1280x720", bitrate |-> "2M",
                crf |-> "23", fps |-> "30", pixel_format |-> "yuv420p", gop |-> "60",
                preset |-> "medium", tune |-> "film"],
     audio |-> AacAudio("192k", "2x")]

RoundTripInputs ==
    AddInputs \cup {<<"video", VideoWithoutSpeedControl>>,
                    <<"audio", [container |-> "mp3",
                                audio |-> [codec |-> "libmp3lame", bitrate |-> "320k",
                                           sample_rate |-> "44100",
                                           channels |-> "2"]]>>}

InitRoundTrip == Init

AddThenKeep ==
    /\ obj = "ready"
    /\ last.op = "load"
    /\ nops = 0
    /\ \E input \in RoundTripInputs, name \in AddNames, builder \in Builders :
        LET r == AddResult(profiles, input[1], name, input[2])
        IN  /\ profiles' = r.coll
            /\ disk' = IF r.saved THEN SaveProfiles(r.coll) ELSE disk
            /\ last' = [op |-> "add_profile", category |-> input[1], name |-> name,
                        settings |-> input[2], ret |-> r.ret, builder |-> builder]
    /\ nops' = 1
    /\ UNCHANGED obj

BuildBeforeRestart ==
    /\ last.op = "add_profile"
    /\ last.ret
    /\ LET b == BuildWith(last.builder, profiles, last.category, last.name)
       IN  /\ profiles' = b.coll
           /\ last' = [op |-> "built", category |-> last.category, name |-> last.name,
                       settings |-> last.settings, builder |-> last.builder,
                       before |-> b.out]
    /\ nops' = 2
    /\ UNCHANGED <<disk, obj>>

RestartAfterBuild ==
    /\ last.op = "built"
    /\ LET r == LoadProfiles(disk)
       IN  /\ profiles' = r.profiles
           /\ disk' = r.disk
           /\ obj' = IF r.raised = "no" THEN "ready" ELSE "failed"
    /\ last' = [last EXCEPT !.op = "restarted"]
    /\ nops' = 3

BuildAfterRestart ==
    /\ last.op = "restarted"
    /\ obj = "ready"
    /\ LET b == BuildWith(last.builder, profiles, last.category, last.name)
       IN  /\ profiles' = b.coll
           /\ last' = [op |-> "rebuilt", category |-> last.category, name |-> last.name,
                       settings |-> last.settings, builder |-> last.builder,
                       before |-> last.before, after |-> b.out]
    /\ nops' = 4
    /\ UNCHANGED <<disk, obj>>

NextRoundTrip ==
    \/ AddThenKeep
    \/ BuildBeforeRestart
    \/ RestartAfterBuild
    \/ BuildAfterRestart

SpecRoundTrip == InitRoundTrip /\ [][NextRoundTrip]_vars

(* C16: the command built from a profile add accepted is the command built *)
(* from it after a restart, for the same paths and the same builder.       *)
RebuildAfterRestartIdentical ==
    last.op = "rebuilt" => last.after = last.before

-----------------------------------------------------------------------------
(* The properties of the built commands *)

CodecSelectors == {"-c:v", "-c:a"}

StreamFlags == {"-b:v", "-s", "-r", "-pix_fmt", "-preset", "-tune", "-crf",
                "-b:a", "-ar", "-ac"}

FilterFlags == {"-filter:v", "-filter:a"}

(* where the groups of the given flags stand in a command *)
Positions(cmd, flags) == {i \in 1..Len(cmd) : cmd[i][1] \in flags}

(* C17: in a built command the one "-i <input>" stands before every codec  *)
(* selector and stream flag, these stand before the filter flags, there is *)
(* at most one -filter:v and one -filter:a, video first, each with its     *)
(* whole stage list as one argument, and the last argument is the output   *)
(* path.                                                                   *)
CommandOrder ==
    Built =>
        LET cmd == last.cmd
        IN  /\ Cardinality(Positions(cmd, {"-i"})) = 1
            /\ \A i \in Positions(cmd, {"-i"}) :
                  /\ cmd[i] = <<"-i", InputPath>>
                  /\ \A j \in Positions(cmd, CodecSelectors \cup StreamFlags) : i < j
            /\ \A i \in Positions(cmd, CodecSelectors \cup StreamFlags) :
                  \A j \in Positions(cmd, FilterFlags) : i < j
            /\ Cardinality(Positions(cmd, {"-filter:v"})) <= 1
            /\ Cardinality(Positions(cmd, {"-filter:a"})) <= 1
            /\ \A i \in Positions(cmd, {"-filter:v"}) :
                  \A j \in Positions(cmd, {"-filter:a"}) : i < j
            /\ \A i \in Positions(cmd, FilterFlags) :
                  Len(cmd[i]) = 2 /\ Len(cmd[i][2]) >= 1
            /\ cmd[Len(cmd)] = <<OutputPath>>
            /\ Positions(cmd, FilterFlags \cup CodecSelectors \cup StreamFlags
                              \cup {"-i"}) \subseteq 1..(Len(cmd) - 1)

BothFiltersBuilt ==
    /\ Built
    /\ last.op = "generate_ffmpeg_command"
    /\ HasGroup(last.cmd, "-filter:v")
    /\ HasGroup(last.cmd, "-filter:a")
    /\ GroupArg(last.cmd, "-filter:v") = <<Stage("setpts", <<1, 4>>)>>
    /\ GroupArg(last.cmd, "-filter:a") = <<Stage("atempo", Two), Stage("atempo", Two)>>

(* the sub-flags of each stream and the profile field each one carries *)
VideoSubFlagFields ==
    {<<"-b:v", "bitrate">>, <<"-s", "resolution">>, <<"-r", "fps">>,
     <<"-pix_fmt", "pixel_format">>, <<"-preset", "preset">>, <<"-tune", "tune">>,
     <<"-crf", "crf">>}

AudioSubFlagFields ==
    {<<"-b:a", "bitrate">>, <<"-ar", "sample_rate">>, <<"-ac", "channels">>}

SubFlagsFollow(cmd, selector, section, pairs) ==
    HasGroup(cmd, selector) =>
        IF GroupArg(cmd, selector) = "copy"
        THEN \A pair \in pairs : ~HasGroup(cmd, pair[1])
        ELSE \A pair \in pairs :
                HasGroup(cmd, pair[1]) <=> Get(section, pair[2], NONE) # "copy"

(* C18: in a built command, a stream whose codec selector is copy has none *)
(* of its sub-flags; a stream whose selector is not copy has each sub-flag *)
(* (-crf included) exactly when the field it carries is not "copy".        *)
SubFlagsFollowCodec ==
    Built =>
        /\ (last.category = "video" /\ "video" \in DOMAIN last.given) =>
              SubFlagsFollow(last.cmd, "-c:v", last.given["video"], VideoSubFlagFields)
        /\ "audio" \in DOMAIN last.given =>
              SubFlagsFollow(last.cmd, "-c:a", last.given["audio"], AudioSubFlagFields)

Stored(category, name) ==
    category \in DOMAIN profiles /\ name \in DOMAIN profiles[category]

VideoFlags == {"-c:v", "-b:v", "-s", "-r", "-pix_fmt", "-preset", "-tune", "-crf",
               "-filter:v"}

(* a build for category video from a profile without a video section       *)
(* returns a command with no video selector, flag or filter, and with the  *)
(* audio codec selector when the profile has an audio section              *)
VideoSectionSkipped ==
    (/\ last.op \in {"generate_ffmpeg_command", "convert_file_with_profile"}
     /\ last.op = "generate_ffmpeg_command" => last.found
     /\ last.category = "video"
     /\ "video" \notin DOMAIN last.given) =>
        /\ last.raised = "no"
        /\ last.cmd # <<>>
        /\ Positions(last.cmd, VideoFlags) = {}
        /\ "audio" \in DOMAIN last.given => HasGroup(last.cmd, "-c:a")

-----------------------------------------------------------------------------
(* The properties of the built-in schema *)

SpeedLists == {"speed_controls", "audio_speeds"}

(* a number followed by the suffix x, as the builders read it *)
IsMultiplier(value) ==
    /\ Chars(value)[Len(Chars(value))] = "x"
    /\ ParseSpeed(value).ok

FreshlyLoaded == last.op = "load" /\ last.file = "absent" /\ obj = "ready"

SpeedListsHoldMultipliers(schema) ==
    \A k \in SpeedLists :
        /\ k \in DOMAIN schema
        /\ schema[k] # <<>>
        /\ \A value \in Range(schema[k]) : value # "copy" /\ IsMultiplier(value)

(* C20, as stated: in the schema a fresh load builds, every list other     *)
(* than speed_controls and audio_speeds holds "copy"; those two hold only  *)
(* multipliers with the suffix x and never "copy".                         *)
EveryOtherListHoldsCopy ==
    FreshlyLoaded =>
        /\ \A k \in (DOMAIN GetSchema(profiles)) \ SpeedLists :
              "copy" \in Range(GetSchema(profiles)[k])
        /\ SpeedListsHoldMultipliers(GetSchema(profiles))

(* C20, amended: in the schema a fresh load builds, every list other than  *)
(* speed_controls, audio_speeds and containers holds "copy"; containers    *)
(* does not; speed_controls and audio_speeds hold only multipliers with    *)
(* the suffix x and never "copy".                                          *)
EveryParameterListHoldsCopy ==
    FreshlyLoaded =>
        /\ \A k \in (DOMAIN GetSchema(profiles)) \ (SpeedLists \cup {"containers"}) :
              "copy" \in Range(GetSchema(profiles)[k])
        /\ "containers" \in DOMAIN GetSchema(profiles)
        /\ "copy" \notin Range(GetSchema(profiles)["containers"])
        /\ SpeedListsHoldMultipliers(GetSchema(profiles))

FreshSchemaLoaded ==
    /\ FreshlyLoaded
    /\ Cardinality(DOMAIN GetSchema(profiles)) = 16
    /\ "copy" \in Range(GetSchema(profiles)["video_codecs"])
    /\ "10x" \in Range(GetSchema(profiles)["speed_controls"])
    /\ "0.25x" \in Range(GetSchema(profiles)["audio_speeds"])
    /\ "mp4" \in Range(GetSchema(profiles)["containers"])

-----------------------------------------------------------------------------
(* The properties of the store's shape *)

ProfileOps == {"add_profile", "remove_profile", "edit_profile_parameter"}

(* C21: no add, remove or edit call, whatever category and name it is      *)
(* given (the reserved name "schema" included), changes what get_schema    *)
(* returns.                                                                *)
SchemaReadOnly ==
    [][last'.op \in ProfileOps => GetSchema(profiles') = GetSchema(profiles)]_vars

(* C22: where the built-in schema is stored, every stored profile has an   *)
(* audio section, and has a video section exactly when it is stored under  *)
(* category video.                                                         *)
SectionsMatchCategory ==
    (obj = "ready" /\ BuiltInSchemaStored) =>
        \A category \in (DOMAIN profiles) \cap {"audio", "video"} :
            \A name \in DOMAIN profiles[category] :
                /\ "audio" \in DOMAIN profiles[category][name]
                /\ "video" \in DOMAIN profiles[category][name] <=> category = "video"

-----------------------------------------------------------------------------
(* The listing of the store: list_profiles after adds and removes *)

(* list_profiles, profiles.py 315-321: category -> the names stored under  *)
(* it (the order of the names is the dict's and is not modelled). None and *)
(* "" both take the unfiltered branch.                                     *)
ListProfiles(coll, category) ==
    IF category \notin {NONE, ""}
    THEN IF category \notin DOMAIN coll THEN EmptyDict
         ELSE [c \in {category} |-> DOMAIN coll[c]]
    ELSE [c \in (DOMAIN coll) \ {"schema"} |-> DOMAIN coll[c]]

ListArguments == {NONE, "", "audio", "video", "schema", "subtitles"}

ListProfilesCall ==
    /\ Called
    /\ \E category \in ListArguments :
        last' = [op |-> "list_profiles", category |-> category,
                 ret |-> ListProfiles(profiles, category)]
    /\ UNCHANGED <<profiles, disk>>

NextList ==
    \/ AddProfile
    \/ RemoveProfile
    \/ ListProfilesCall

SpecList == Init /\ [][NextList]_vars

(* C23: whatever its argument, the mapping list_profiles returns has no    *)
(* key "schema" and lists no schema option-list name as a profile name.    *)
ListExcludesSchema ==
    last.op = "list_profiles" =>
        /\ "schema" \notin DOMAIN last.ret
        /\ \A c \in DOMAIN last.ret : last.ret[c] \cap DOMAIN GetSchema(profiles) = {}

-----------------------------------------------------------------------------
(* The properties of the builders' outcomes *)

BuilderOps == {"convert_file_with_profile", "generate_ffmpeg_command"}

Exceptions == {"KeyError", "ValueError", "ZeroDivisionError"}

(* C24: where the built-in schema is stored, a build from a stored profile *)
(* (one that add accepted, or one that successful edits made of it) raises *)
(* no exception: it gives a parameter list.                                *)
BuilderNeverRaises ==
    (/\ last.op \in BuilderOps
     /\ BuiltInSchemaStored
     /\ last.op = "generate_ffmpeg_command" => last.found) =>
        /\ last.raised \notin Exceptions
        /\ last.raised = "no" => last.cmd # <<>>

-----------------------------------------------------------------------------
(* A profile inferred from a reference file: create_profile_from_reference *)

(* What ffprobe printed for the reference file. A stream is a dict; width  *)
(* and height stand as the decimal text the f-string makes of them;        *)
(* format_name is the comma-separated list, r_frame_rate the fraction.     *)
VideoStream == [codec_type |-> "video", width |-> "1280", height |-> "720",
                r_frame_rate |-> "30000/1001"]

BareVideoStream == [codec_type |-> "video"]

AudioStream == [codec_type |-> "audio"]

Probes ==
    {[returncode |-> 1, stdout |-> "json", metadata |-> EmptyDict],
     [returncode |-> 0, stdout |-> "text", metadata |-> EmptyDict],
     [returncode |-> 0, stdout |-> "json", metadata |-> EmptyDict],
     [returncode |-> 0, stdout |-> "json",
      metadata |-> [streams |-> <<VideoStream, AudioStream>>]],
     [returncode |-> 0, stdout |-> "json",
      metadata |-> [streams |-> <<VideoStream, AudioStream>>,
                    format |-> [format_name |-> "mov,mp4,m4a,3gp,3g2,mj2"]]],
     [returncode |-> 0, stdout |-> "json",
      metadata |-> [streams |-> <<AudioStream, VideoStream>>,
                    format |-> [format_name |-> "matroska,webm"]]],
     [returncode |-> 0, stdout |-> "json",
      metadata |-> [streams |-> <<BareVideoStream>>,
                    format |-> [format_name |-> "avi"]]],
     [returncode |-> 0, stdout |-> "json",
      metadata |-> [streams |-> <<AudioStream>>,
                    format |-> [format_name |-> "mp3"]]],
     [returncode |-> 0, stdout |-> "json",
      metadata |-> [streams |-> <<AudioStream>>,
                    format |-> [format_name |-> "aac"]]],
     [returncode |-> 0, stdout |-> "json",
      metadata |-> [streams |-> <<[index |-> "0"], VideoStream>>,
                    format |-> [format_name |-> "mpegts"]]],
     [returncode |-> 0, stdout |-> "json",
      metadata |-> [streams |-> <<AudioStream>>, format |-> [duration |-> "1.0"]]]}

(* text.split(sep)[0] for the texts the probes hold *)
FirstPart ==
    [text \in {"mov,mp4,m4a,3gp,3g2,mj2", "matroska,webm", "avi", "mp3", "aac",
               "mpegts", "30000/1001", "30"} |->
        CASE text = "mov,mp4,m4a,3gp,3g2,mj2" -> "mov"
          [] text = "matroska,webm"           -> "matroska"
          [] text = "30000/1001"              -> "30000"
          [] OTHER                            -> text]

(* 'mp4' if category == "video" else 'm4a' *)
FallbackContainerAlwaysMp4(category) == "mp4"

FallbackContainer(category) == IF category = "video" THEN "mp4" ELSE "m4a"

(* next((s for s in streams if s['codec_type'] == kind), None): the index  *)
(* of the stream found, 0 for None, -1 when a stream before it has no      *)
(* codec_type (KeyError)                                                   *)
FirstStream(streams, kind) ==
    LET hits   == {i \in 1..Len(streams) :
                      Get(streams[i], "codec_type", NONE) = kind}
        first  == IF hits = {} THEN Len(streams) + 1
                  ELSE CHOOSE i \in hits : \A j \in hits : i <= j
        broken == \E j \in 1..(first - 1) : "codec_type" \notin DOMAIN streams[j]
    IN  IF broken THEN -1 ELSE IF hits = {} THEN 0 ELSE first

(* lines 391-402 *)
InferredVideo(video_stream) ==
    [codec |-> "libx264",
     resolution |-> Get(video_stream, "width", "1920") \o "x"
                        \o Get(video_stream, "height", "1080"),
     bitrate |-> "copy", crf |-> "23",
     fps |-> FirstPart[Get(video_stream, "r_frame_rate", "30")],
     pixel_format |-> "yuv420p", gop |-> "60", preset |-> "medium",
     tune |-> "film", speed_control |-> "1x"]

(* lines 407-413 *)
InferredAudio(category) ==
    [codec |-> IF category = "video" THEN "aac" ELSE "libmp3lame",
     bitrate |-> "192k", sample_rate |-> "48000", channels |-> "2",
     audio_speed |-> "1x"]

InferFailed(coll) == [ok |-> FALSE, ret |-> EmptyDict, coll |-> coll, saved |-> FALSE]

(* create_profile_from_reference, lines 355-425: what it returns (ok is    *)
(* FALSE for None) and the collection it leaves. The names ffprobe prints are lower  *)
(* case already, so .lower() leaves them as they are. Every KeyError ends  *)
(* in the handler of line 423.                                             *)
CreateProfileFromReference(coll, probe, profile_name) ==
    IF probe.returncode # 0 \/ probe.stdout # "json" THEN InferFailed(coll)
    ELSE
    LET metadata == probe.metadata
    IN  IF DOMAIN metadata = {} \/ "streams" \notin DOMAIN metadata
           \/ "format" \notin DOMAIN metadata
        THEN InferFailed(coll)
        ELSE
        LET streams   == metadata["streams"]
            has_video == \E i \in 1..Len(streams) :
                            Get(streams[i], "codec_type", NONE) = "video"
            category  == IF has_video THEN "video" ELSE "audio"
        IN  IF "format_name" \notin DOMAIN metadata["format"]
               \/ "containers" \notin DOMAIN GetSchema(coll)
            THEN InferFailed(coll)
            ELSE
            LET probed    == FirstPart[metadata["format"]["format_name"]]
                container == IF probed \notin Range(GetSchema(coll)["containers"])
                             THEN FallbackContainer(category) ELSE probed
                vi        == IF category = "video" THEN FirstStream(streams, "video")
                             ELSE 0
                p1        == IF vi > 0
                             THEN [container |-> container,
                                   video |-> InferredVideo(streams[vi])]
                             ELSE [container |-> container]
                ai        == FirstStream(streams, "audio")
                profile   == IF ai > 0 THEN Put(p1, "audio", InferredAudio(category))
                             ELSE p1
                added     == AddResult(coll, category, profile_name, profile)
            IN  IF vi < 0 \/ ai < 0 THEN InferFailed(coll)
                ELSE IF added.ret
                THEN [ok |-> TRUE, ret |-> added.coll[category][profile_name],
                      coll |-> added.coll, saved |-> TRUE]
                ELSE InferFailed(coll)

CreateFromReference ==
    /\ Called
    /\ \E probe \in Probes, name \in AddNames :
        LET r == CreateProfileFromReference(profiles, probe, name)
        IN  /\ profiles' = r.coll
            /\ disk' = IF r.saved THEN SaveProfiles(r.coll) ELSE disk
            /\ last' = [op |-> "create_profile_from_reference", probe |-> probe,
                        name |-> name, ok |-> r.ok, ret |-> r.ret]

(* a file whose schema was narrowed by hand: no mp4, no m4a *)
NarrowSchemaDoc ==
    [audio |-> [double_speed |-> Mp3Audio("2x")],
     video |-> EmptyDict,
     schema |-> [containers |-> <<"mkv", "mp3">>,
                 speed_controls |-> <<"1x", "2x">>,
                 audio_speeds |-> <<"1x", "2x">>,
                 audio_codecs |-> <<"copy", "libmp3lame">>]]

InitInfer ==
    \E file \in InitialFiles \cup {[state |-> "ok", doc |-> NarrowSchemaDoc]} :
        LET r == LoadProfiles(file)
        IN  /\ profiles = r.profiles
            /\ disk = r.disk
            /\ obj = IF r.raised = "no" THEN "ready" ELSE "failed"
            /\ last = [op |-> "load", file |-> file.state, raised |-> r.raised]
            /\ nops = 0

NextInfer ==
    \/ CreateFromReference
    \/ RemoveProfile

SpecInfer == InitInfer /\ [][NextInfer]_vars

(* the category a probe calls for: video iff some stream has type video *)
ProbedCategory(probe) ==
    IF \E i \in 1..Len(probe.metadata["streams"]) :
           Get(probe.metadata["streams"][i], "codec_type", NONE) = "video"
    THEN "video" ELSE "audio"

(* C25: when create_profile_from_reference returns a profile, add_profile  *)
(* accepted it and it is stored, and saved, under (category, name), with   *)
(* category video iff some probed stream has type video; its container is  *)
(* in the schema's containers list and is the probed primary name if that  *)
(* is in the list, else mp4 for video and m4a for audio; its speed fields  *)
(* are "1x". When it returns None the collection and the file are as they  *)
(* were.                                                                   *)
InferStoresThroughAdd ==
    [][last'.op = "create_profile_from_reference" =>
          IF ~last'.ok
          THEN profiles' = profiles /\ disk' = disk
          ELSE LET category   == ProbedCategory(last'.probe)
                   containers == Range(GetSchema(profiles)["containers"])
                   probed     ==
                       FirstPart[last'.probe.metadata["format"]["format_name"]]
               IN  /\ AddResult(profiles, category, last'.name, last'.ret).ret
                   /\ HasProfile(profiles', category, last'.name)
                   /\ profiles'[category][last'.name] = last'.ret
                   /\ disk' = [state |-> "ok", doc |-> profiles']
                   /\ last'.ret["container"] \in containers
                   /\ last'.ret["container"] =
                        IF probed \in containers THEN probed
                        ELSE IF category = "video" THEN "mp4" ELSE "m4a"
                   /\ "video" \in DOMAIN last'.ret =>
                        last'.ret["video"]["speed_control"] = "1x"
                   /\ "audio" \in DOMAIN last'.ret =>
                        last'.ret["audio"]["audio_speed"] = "1x"
                   /\ "video" \in DOMAIN last'.ret => category = "video"]_vars

InferredWithFallbackContainer ==
    /\ last.op = "create_profile_from_reference"
    /\ last.ok
    /\ last.probe.metadata["format"]["format_name"] = "aac"
    /\ last.name = "custom"
    /\ HasProfile(profiles, "audio", "custom")
    /\ profiles["audio"]["custom"]["container"] = "m4a"
    /\ profiles["audio"]["custom"]["audio"]["codec"] = "libmp3lame"
    /\ disk = [state |-> "ok", doc |-> profiles]

-----------------------------------------------------------------------------
(* The speeds a store can hold: edits of the speed fields, then builds *)

SpeedFields == {<<"video", "speed_control">>, <<"audio", "audio_speed">>}

SpeedTexts == {"0x", "-1x", "0.1x", "4x"}

(* edit_profile_parameter on a speed field *)
EditSpeed ==
    /\ Called
    /\ \E target \in TargetProfiles, field \in SpeedFields, value \in SpeedTexts :
        LET r == EditResult(profiles, target[1], target[2], field[1], field[2], value)
        IN  /\ profiles' = r.coll
            /\ disk' = IF r.saved THEN SaveProfiles(r.coll) ELSE disk
            /\ last' = [op |-> "edit_profile_parameter", via |-> "api",
                        category |-> target[1], name |-> target[2],
                        section |-> field[1], param |-> field[2],
                        value |-> value, ret |-> r.ret]

NextSpeeds ==
    \/ EditSpeed
    \/ ConvertFiles
    \/ ConvertFile

SpecSpeeds == Init /\ [][NextSpeeds]_vars

(* the speed the tempo loop of the last build started from *)
LoopSpeed ==
    IF last.op = "convert_file_with_profile"
    THEN TargetSpeed(last.given, last.category)
    ELSE Get(Get(last.given, "audio", EmptyDict), "audio_speed", "1x")

(* C26: where the built-in schema is stored, no build from a stored        *)
(* profile stays in the tempo loop: the loop exits within MaxIter rounds,  *)
(* and is never entered with a remaining speed that doubling or halving    *)
(* cannot bring into [0.5, 2.0] (zero or a negative number).               *)
TempoLoopTerminates ==
    (/\ last.op \in BuilderOps
     /\ BuiltInSchemaStored) =>
        /\ last.raised # "never returns"
        /\ (/\ last.raised = "no"
            /\ HasGroup(last.cmd, "-filter:a")) =>
                RLess(<<0, 1>>, ParseSpeed(LoopSpeed).val)

-----------------------------------------------------------------------------
(* The properties of a build's effect on the store *)

(* C27: a build, by either builder, leaves every field of every stored     *)
(* profile as it was, so the next save writes nothing the build changed.   *)
BuildLeavesStoreAlone ==
    [][last'.op \in BuilderOps => profiles' = profiles /\ disk' = disk]_vars

-----------------------------------------------------------------------------
(* The argument lists the two conversion paths hand to the engine *)

(* one argument of a list: a text, or the stage list of a filter *)
TextArg(text) == [text |-> text, stages |-> <<>>]

StagesArg(stages) == [text |-> "", stages |-> stages]

IsFilterFlag(flag) == flag \in {"-filter:v", "-filter:a"}

(* the arguments of a command, group after group *)
RECURSIVE Arguments(_)
Arguments(cmd) ==
    IF cmd = <<>> THEN <<>>
    ELSE LET group == cmd[1]
             args  == IF Len(group) = 1 THEN <<TextArg(group[1])>>
                      ELSE IF IsFilterFlag(group[1])
                      THEN <<TextArg(group[1]), StagesArg(group[2])>>
                      ELSE <<TextArg(group[1]), TextArg(group[2])>>
         IN  args \o Arguments(Tail(cmd))

(* str.split() of the texts of the model that hold white space *)
Words ==
    [text \in {"custom (e.g., 720x1280)"} |-> <<"custom", "(e.g.,", "720x1280)">>]

SplitOnSpaces(arg) ==
    IF arg.stages = <<>> /\ arg.text \in DOMAIN Words
    THEN [i \in 1..Len(Words[arg.text]) |-> TextArg(Words[arg.text][i])]
    ELSE <<arg>>

RECURSIVE SplitAll(_)
SplitAll(args) ==
    IF args = <<>> THEN <<>> ELSE SplitOnSpaces(args[1]) \o SplitAll(Tail(args))

(* convert_file, converter.py 131-149: the string generate_ffmpeg_command  *)
(* joined with spaces is split on white space, then -progress pipe:1       *)
(* -nostats is inserted after the program name                             *)
ConvertFileArguments(cmd) ==
    LET cmd_parts == SplitAll(Arguments(cmd))
    IN  <<cmd_parts[1], TextArg("-progress"), TextArg("pipe:1"), TextArg("-nostats")>>
        \o Tail(cmd_parts)

WithoutArg(args, text) == SelectSeq(args, LAMBDA a : a # TextArg(text))

(* C28: where the built-in schema is stored, the argument list convert_file *)
(* makes of a stored profile is the list convert_file_with_profile makes   *)
(* of the same profile, category and paths, the flag -y left out; one      *)
(* raises exactly when the other does.                                     *)
BuildersAgree ==
    (/\ last.op = "generate_ffmpeg_command"
     /\ last.found
     /\ BuiltInSchemaStored) =>
        LET w == ConvertFileWithProfile(last.given, last.category,
                                        InputPath, OutputPath)
        IN  /\ w.raised = "no" <=> last.raised = "no"
            /\ last.raised = "no" =>
                  WithoutArg(Arguments(w.cmd), "-y") = ConvertFileArguments(last.cmd)

-----------------------------------------------------------------------------
(* Renaming a stored profile: ConverterCLI._rename_profile *)

(* _rename_profile, cli.py 344-356: get_profile, add_profile under the new *)
(* name, remove_profile of the old name. The dict handed to add_profile is *)
(* the stored one, so what the validator writes into it (profiles.py 254)  *)
(* is written into the stored profile, whether or not the add succeeds.    *)
RenameResult(coll, category, old_name, new_name) ==
    IF ~HasProfile(coll, category, old_name)
       \/ DOMAIN coll[category][old_name] = {}
    THEN [ret |-> FALSE, coll |-> coll, saved |-> FALSE]
    ELSE
    LET profile == coll[category][old_name]
        v       == ValidateProfile(coll, category, profile)
        coll1   == StoreUnder(coll, category, old_name, v.settings)
        added   == AddResult(coll1, category, new_name, v.settings)
        removed == RemoveResult(added.coll, category, old_name)
    IN  IF added.ret
        THEN [ret |-> TRUE, coll |-> removed.coll, saved |-> TRUE]
        ELSE [ret |-> FALSE, coll |-> coll1, saved |-> FALSE]

(* the name typed at the prompt (any non-empty text) *)
RenameNames == {"custom", "fast_motion", "double_speed", "slow_motion"}

RenameProfile ==
    /\ Called
    /\ \E target \in TargetProfiles, new_name \in RenameNames :
        /\ HasProfile(profiles, target[1], target[2])
        /\ LET r == RenameResult(profiles, target[1], target[2], new_name)
           IN  /\ profiles' = r.coll
               /\ disk' = IF r.saved THEN SaveProfiles(r.coll) ELSE disk
               /\ last' = [op |-> "rename_profile", category |-> target[1],
                           old_name |-> target[2], new_name |-> new_name,
                           ret |-> r.ret]

NextRename ==
    \/ RenameProfile
    \/ EditProfileParameter

SpecRename == Init /\ [][NextRename]_vars

(* C29: after a rename of a stored profile that reports success, the       *)
(* profile is stored under the new name with the settings it had, and the  *)
(* category holds at least as many profiles as before.                     *)
RenameKeepsProfile ==
    [][(last'.op = "rename_profile" /\ last'.ret) =>
          /\ HasProfile(profiles', last'.category, last'.new_name)
          /\ profiles'[last'.category][last'.new_name]
                = profiles[last'.category][last'.old_name]
          /\ Cardinality(DOMAIN profiles'[last'.category])
                >= Cardinality(DOMAIN profiles[last'.category])]_vars

-----------------------------------------------------------------------------
(* One convert_files batch: the output path of every selected file *)

(* the files the browser can select; Path(input_file).stem is the field    *)
(* stem                                                                    *)
InputFiles ==
    {[dir |-> "a", stem |-> "clip", suffix |-> ".mov"],
     [dir |-> "b", stem |-> "clip", suffix |-> ".mov"],
     [dir |-> "a", stem |-> "clip", suffix |-> ".avi"],
     [dir |-> "a", stem |-> "clip1", suffix |-> ".mov"],
     [dir |-> "a", stem |-> "song", suffix |-> ".wav"]}

MaxSelected == 3

(* selected_files: a list without repetitions (cli.py 178-179, 192-193) *)
Selections ==
    {s \in UNION {[1..n -> InputFiles] : n \in 1..MaxSelected} :
        \A i, j \in DOMAIN s : i # j => s[i] # s[j]}

(* output_directory / f"{input_path.stem}{output_extension}", as the name  *)
(* inside the output directory                                             *)
BaseOutputPath(input_file, container) == input_file.stem \o "." \o container

(* the names the output directory can hold before the batch *)
OutputDirectories(container) ==
    SUBSET {"clip." \o container, "clip1." \o container, "song." \o container}

(* _get_unique_output_path, cli.py 806-817; the loop ends at the latest    *)
(* when the counter exceeds the number of files there are                  *)
GetUniqueOutputPath(files, stem, container) ==
    IF stem \o "." \o container \notin files THEN stem \o "." \o container
    ELSE LET free == {c \in 1..(Cardinality(files) + 1) :
                         stem \o ToString(c) \o "." \o container \notin files}
             counter == CHOOSE c \in free : \A d \in free : c <= d
         IN  stem \o ToString(counter) \o "." \o container

(* the conversion loop, cli.py 894-913: an existing output path is deleted, *)
(* then the engine writes it; made[path] is the input the file at path was *)
(* made from                                                               *)
RECURSIVE ConvertLoop(_, _, _, _)
ConvertLoop(selected, output_paths, files, made) ==
    IF selected = <<>> THEN [files |-> files, made |-> made]
    ELSE LET output_path == output_paths[selected[1]]
         IN  ConvertLoop(Tail(selected), output_paths,
                         (files \ {output_path}) \cup {output_path},
                         Put(made, output_path, selected[1]))

HandlingChoices == {"skip", "overwrite", "rename", "cancel"}

(* existing_files, cli.py 841-851 *)
ExistingFiles(selected_files, files, container) ==
    {f \in Range(selected_files) : BaseOutputPath(f, container) \in files}

(* convert_files, cli.py 840-913, after the profile was picked: the paths  *)
(* assigned, the files converted and the output directory at the end       *)
ConvertBatch(selected_files, files, container, action) ==
    LET base     == [f \in Range(selected_files) |-> BaseOutputPath(f, container)]
        existing == ExistingFiles(selected_files, files, container)
        kept     == IF existing # {} /\ action = "skip"
                    THEN SelectSeq(selected_files, LAMBDA f : f \notin existing)
                    ELSE selected_files
        output_paths ==
            IF existing # {} /\ action = "rename"
            THEN [f \in Range(selected_files) |->
                    IF f \in existing
                    THEN GetUniqueOutputPath(files, f.stem, container)
                    ELSE base[f]]
            ELSE base
        loop     == ConvertLoop(kept, output_paths, files, EmptyDict)
    IN  IF existing # {} /\ action = "cancel"
        THEN [converted |-> <<>>, output_paths |-> base, files |-> files,
              made |-> EmptyDict]
        ELSE [converted |-> kept, output_paths |-> output_paths,
              files |-> loop.files, made |-> loop.made]

SelectFiles ==
    /\ obj = "ready"
    /\ last.op = "load"
    /\ \E selected \in Selections :
        last' = [op |-> "select_files", selected |-> selected]
    /\ nops' = nops + 1
    /\ UNCHANGED <<profiles, disk, obj>>

(* convert_files for the selected files: the profile is picked, the output *)
(* directory is as some earlier run left it, and the question how to       *)
(* handle existing files is asked when one is found. Each conversion is    *)
(* handed                                                                  *)
(* the stored profile dict (line 905), whose writes stay in it.            *)
ConvertSelectedFiles ==
    /\ last.op = "select_files"
    /\ \E target \in TargetProfiles :
        /\ HasProfile(profiles, target[1], target[2])
        /\ DOMAIN profiles[target[1]][target[2]] # {}
        /\ "container" \in DOMAIN profiles[target[1]][target[2]]
        /\ LET profile   == profiles[target[1]][target[2]]
               container == profile["container"]
           IN  \E files \in OutputDirectories(container) :
               \E action \in IF ExistingFiles(last.selected, files, container) = {}
                              THEN {"not asked"} ELSE HandlingChoices :
                 LET b == ConvertBatch(last.selected, files, container, action)
                     r == ConvertFileWithProfile(profile, target[1],
                                                 InputPath, OutputPath)
                 IN  /\ last' = [op |-> "convert_files", selected |-> last.selected,
                                 before |-> files, action |-> action,
                                 converted |-> b.converted,
                                 output_paths |-> b.output_paths,
                                 files |-> b.files, made |-> b.made]
                     /\ profiles' = IF b.converted = <<>> THEN profiles
                                    ELSE Put(profiles, target[1],
                                             Put(profiles[target[1]], target[2],
                                                 r.profile))
    /\ nops' = nops + 1
    /\ UNCHANGED <<disk, obj>>

NextBatch ==
    \/ SelectFiles
    \/ ConvertSelectedFiles

SpecBatch == Init /\ [][NextBatch]_vars

(* C30: in one batch the converted files have pairwise distinct output     *)
(* paths, whatever the handling choice, and at the end every converted     *)
(* file's output path holds the file made from it.                         *)
OutputPathsDistinct ==
    last.op = "convert_files" =>
        /\ \A i, j \in DOMAIN last.converted :
              i # j => last.output_paths[last.converted[i]]
                          # last.output_paths[last.converted[j]]
        /\ \A i \in DOMAIN last.converted :
              LET output_path == last.output_paths[last.converted[i]]
              IN  /\ output_path \in last.files
                  /\ last.made[output_path] = last.converted[i]

=============================================================================
